---- MODULE Spec2Model ----
(***************************************************************************)
(* Model of the key-overlay engine (src/app.py, class                      *)
(* KeyOverlayController): the keyboard hook callback and the pressed-key   *)
(* set, monitoring, recording, and the playback worker thread.             *)
(*                                                                         *)
(* Strings are sequences of one-character strings, so that normalisation,  *)
(* sorting and joining are computed the way the code computes them.        *)
(* Time is counted in integer ticks; one tick is one sleep slice of the    *)
(* playback worker (0.01 s).                                               *)
(***************************************************************************)
EXTENDS Integers, Sequences, FiniteSets, TLC

(***************************************************************************)
(* Bounds of the model.                                                    *)
(***************************************************************************)
\* longest timeline replayed from a file
MaxLen == 2
\* largest value of the times argument of play_file
MaxTimes == 2
\* the cycle counter of a Loop run saturates here (it is never read in Loop mode)
CycleCap == MaxTimes
\* last tick of the monotonic clock
MaxClock == 1
\* longest event log kept by one recording
MaxRec == 2
\* playback worker threads alive at one time
MaxWorkers == 2
\* the count of synthesized actions saturates here (only a Loop run gets there)
ActCap == MaxTimes * MaxLen + 1

(***************************************************************************)
(* Characters and strings.                                                  *)
(***************************************************************************)
LowerCase == << "a","b","c","d","e","f","g","h","i","j","k","l","m",
                "n","o","p","q","r","s","t","u","v","w","x","y","z" >>
UpperCase == << "A","B","C","D","E","F","G","H","I","J","K","L","M",
                "N","O","P","Q","R","S","T","U","V","W","X","Y","Z" >>

Digits == << "0","1","2","3","4","5","6","7","8","9" >>

IndexIn(c, s) == IF \E i \in 1..Len(s) : s[i] = c
                 THEN CHOOSE i \in 1..Len(s) : s[i] = c
                 ELSE 0

\* ord(c) of the characters that occur in key names and display strings:
\* space, "+", "_", digits and ASCII letters
CodePoint(c) ==
    IF c = " " THEN 32
    ELSE IF c = "+" THEN 43
    ELSE IF c = "_" THEN 95
    ELSE IF IndexIn(c, Digits) > 0 THEN 47 + IndexIn(c, Digits)
    ELSE IF IndexIn(c, UpperCase) > 0 THEN 64 + IndexIn(c, UpperCase)
    ELSE 96 + IndexIn(c, LowerCase)

\* str.upper() on one character
UpperChar(c) == IF IndexIn(c, LowerCase) > 0 THEN UpperCase[IndexIn(c, LowerCase)] ELSE c
Upper(s) == [i \in 1..Len(s) |-> UpperChar(s[i])]

IsPrefix(p, s) == Len(p) <= Len(s) /\ \A i \in 1..Len(p) : s[i] = p[i]

\* str.replace(old, new): leftmost non-overlapping occurrences, left to right
RECURSIVE Replace(_, _, _)
Replace(s, old, new) ==
    IF Len(s) = 0 THEN s
    ELSE IF IsPrefix(old, s)
         THEN new \o Replace(SubSeq(s, Len(old) + 1, Len(s)), old, new)
         ELSE <<s[1]>> \o Replace(Tail(s), old, new)

\* _normalize_key with the two replacements in the other order
NormalizeKeyUnderscoreFirst(name) ==
    IF Len(name) = 1 THEN Upper(name)
    ELSE Upper(Replace(Replace(name, <<" ">>, <<"_">>),
                       <<" ","s","p","a","c","e">>, <<"s","p","a","c","e">>))

\* _normalize_key(name)
NormalizeKey(name) ==
    IF Len(name) = 1 THEN Upper(name)
    ELSE Upper(Replace(Replace(name, <<" ","s","p","a","c","e">>, <<"s","p","a","c","e">>),
                       <<" ">>, <<"_">>))

\* str < str of Python: lexicographic by code point, a proper prefix is smaller
RECURSIVE StrLess(_, _)
StrLess(a, b) ==
    IF Len(b) = 0 THEN FALSE
    ELSE IF Len(a) = 0 THEN TRUE
    ELSE IF a[1] # b[1] THEN CodePoint(a[1]) < CodePoint(b[1])
    ELSE StrLess(Tail(a), Tail(b))

\* sorted(set of str)
RECURSIVE Sorted(_)
Sorted(S) ==
    IF S = {} THEN <<>>
    ELSE LET m == CHOOSE x \in S : \A y \in S \ {x} : StrLess(x, y)
         IN  <<m>> \o Sorted(S \ {m})

\* sep.join(list of str)
RECURSIVE Join(_, _)
Join(sep, l) ==
    IF Len(l) = 0 THEN <<>>
    ELSE IF Len(l) = 1 THEN l[1]
    ELSE l[1] \o sep \o Join(sep, Tail(l))

\* a display string built without sorting: the tokens in some other order
RECURSIVE SortedDescending(_)
SortedDescending(S) ==
    IF S = {} THEN <<>>
    ELSE LET m == CHOOSE x \in S : \A y \in S \ {x} : StrLess(y, x)
         IN  <<m>> \o SortedDescending(S \ {m})
DisplayUnsorted(S) == Join(<<"+">>, SortedDescending(S))

\* "+".join(sorted(self.current_pressed))
Display(S) == Join(<<"+">>, Sorted(S))

Max(a, b) == IF a >= b THEN a ELSE b

(***************************************************************************)
(* Inputs: the key names the keyboard hook delivers, the files play_file   *)
(* may be pointed at, and the arguments of play_file.                      *)
(***************************************************************************)
NoName == <<>>
KeyA == <<"a">>
KeyShiftA == <<"A">>
KeyB == <<"b">>
KeyLeftShift == <<"l","e","f","t"," ","s","h","i","f","t">>
\* a name the keyboard library cannot map to a key: press and release raise on it
KeyUnmapped == <<"z","z">>

\* event.name of the events the hook delivers ("" and None are both falsy)
HookNames == {NoName, KeyA, KeyShiftA, KeyLeftShift}
\* event.event_type: the keyboard library delivers "down" and "up"
HookTypes == {"down", "up"}

\* the playback worker threads that may exist at one time
Workers == 1..MaxWorkers

\* save_path / path arguments: the default record path and a chosen file
Paths == {"default", "chosen"}

VARIABLES
    \* ---- fields of KeyOverlayController
    current_pressed,     \* set of tokens
    hook,                \* self._hook is not None
    record_hook,         \* self._record_hook is not None
    is_recording,
    record_events,       \* list of [t, type, name]
    record_start_time,
    is_playing,
    monitor_enabled,
    playback_stop,       \* threading.Event: is_set()
    \* ---- environment
    os_hooks,            \* callbacks registered with the keyboard library
    clock,               \* time.monotonic(), in ticks
    files,               \* path -> [kind, events]
    keys_text,           \* last string emitted by keys_text_changed
    \* ---- hook thread: _on_key_event in progress
    cb,
    \* ---- UI thread: the controller call in progress
    ui,
    \* ---- ControlWindow: [monitoring, recording, dialog]
    window,
    \* ---- playback worker threads (_runner), one record per thread
    worker,
    \* ---- history (not read by any action)
    held,                \* tokens whose most recent transition was Down
    lockHeld,            \* held at the time the last display string was built
    cbRaised,            \* the hook callback raised an exception
    hist,                \* per worker: what its run did
    last_call,           \* the controller method the UI thread called last
    arrived              \* callbacks that arrived since start_recording returned

ctlVars  == << current_pressed, hook, record_hook, is_recording, record_events,
               record_start_time, is_playing, monitor_enabled, playback_stop >>
envVars  == << os_hooks, clock, files, keys_text >>
histVars == << held, lockHeld, cbRaised, hist, last_call, arrived >>
vars     == << ctlVars, envVars, cb, ui, window, worker, histVars >>

\* variables of the monitoring / recording side and of the playback side
monState  == << current_pressed, hook, record_hook, is_recording, record_events,
                record_start_time, monitor_enabled, os_hooks, clock, keys_text,
                cb, held, lockHeld, cbRaised, last_call, arrived >>
playState == << is_playing, playback_stop, worker, hist >>

(***************************************************************************)
(* Timelines read from a file.  An event is a JSON object; tk says what    *)
(* its "t" member is: a number, absent, or a value float() rejects.        *)
(***************************************************************************)
Ev(tk, t, type, name) == [tk |-> tk, t |-> t, type |-> type, name |-> name]

FileEvents ==
    { Ev("num", 0, "down", KeyA),
      Ev("num", 2, "up", KeyA),
      Ev("num", 1, "down", KeyB),
      Ev("missing", 0, "up", KeyUnmapped),
      Ev("num", 1, "down", NoName),
      Ev("bad", 0, "down", KeyA) }

SeqsUpTo(S, n) == UNION { [1..k -> S] : k \in 0..n }
Timelines == SeqsUpTo(FileEvents, MaxLen)

Absent == [kind |-> "absent", events |-> <<>>]
\* a file that exists but cannot be read or parsed, or is no JSON object
Garbage == [kind |-> "garbage", events |-> <<>>]
JsonFile(evs) == [kind |-> "json", events |-> evs]
\* a path under a directory the process may not search: path.exists() of line
\* 277 raises PermissionError (pathlib ignores ENOENT, ENOTDIR, EBADF and ELOOP
\* only)
Denied == [kind |-> "denied", events |-> <<>>]

(***************************************************************************)
(* Initial state: KeyOverlayController.__init__.                           *)
(***************************************************************************)
CbIdle == [pc |-> "idle", type |-> "down", name |-> NoName, display |-> <<>>,
           now |-> 0, stale |-> FALSE]
UiIdle == [pc |-> "idle", path |-> "default"]
\* lines 724-725: the window's own flags; dialog: a _toggle_record is waiting in
\* the event loop of its dialog (line 825)
WindowInit == [monitoring |-> FALSE, recording |-> FALSE, dialog |-> FALSE]
WorkerIdle == [pc |-> "idle", events |-> <<>>, times_none |-> FALSE, times |-> 1,
               loop |-> FALSE, cycle |-> 0, idx |-> 0, last_t |-> 0, t |-> 0,
               rem |-> 0, unique |-> {}, todo |-> {}]
\* what a run did: the actions synthesized in the current cycle and in all, the
\* ticks slept before the current event and in the current cycle, the keys the
\* end-of-run release was issued for, whether stop_playback set the signal since
\* play_file, whether an exception ended the run, whether the signal was still
\* set when play_file was called
\* -- stopCalled: stop_playback was called since play_file
\* -- signals: the values this thread emitted with playback_state_changed; kept
\*    after the thread has ended, until the slot is used again
HistIdle == [cycleActs |-> <<>>, nacts |-> 0, slept |-> 0, waited |-> 0,
             rel |-> {}, stopped |-> FALSE, raised |-> FALSE, leftover |-> FALSE,
             stopCalled |-> FALSE, signals |-> <<>>]

\* a call of a controller method by the UI thread: the method, its argument,
\* whether it returned at its first guard, whether it raised to the caller, the
\* value it returned and the signals it emitted, in order
NoCall == [op |-> "none", arg |-> "", early |-> FALSE, raised |-> FALSE,
           ret |-> "None", emits |-> <<>>]
Call(op, arg, early) == [NoCall EXCEPT !.op = op, !.arg = arg, !.early = early]
Raising(c, r) == [c EXCEPT !.raised = r]
Emitting(c, signal, value) == [c EXCEPT !.emits = Append(@, <<signal, value>>)]
BoolStr(b) == IF b THEN "True" ELSE "False"

InitWith(InitialFiles) ==
    /\ current_pressed = {}
    /\ hook = FALSE
    /\ record_hook = FALSE
    /\ is_recording = FALSE
    /\ record_events = <<>>
    /\ record_start_time = 0
    /\ is_playing = FALSE
    /\ monitor_enabled = FALSE
    /\ playback_stop = FALSE
    /\ os_hooks = 0
    /\ clock = 0
    /\ \E f \in InitialFiles :
          files = [p \in Paths |-> IF p = "default" THEN f ELSE Absent]
    /\ keys_text = <<>>
    /\ cb = CbIdle
    /\ ui = UiIdle
    /\ window = WindowInit
    /\ worker = [w \in Workers |-> WorkerIdle]
    /\ held = {}
    /\ lockHeld = {}
    /\ cbRaised = FALSE
    /\ hist = [w \in Workers |-> HistIdle]
    /\ last_call = NoCall
    /\ arrived = <<>>

(***************************************************************************)
(* Hook thread: _on_key_event.                                             *)
(***************************************************************************)
\* set.remove in place of set.discard: KeyError when the token is absent
PressedAfterRemove(pressed, type, tok) ==
    IF type = "down" THEN [set |-> pressed \cup {tok}, raised |-> FALSE]
    ELSE IF type = "up" THEN [set |-> pressed \ {tok}, raised |-> tok \notin pressed]
    ELSE [set |-> pressed, raised |-> FALSE]

\* lines 209-212: set.add on "down", set.discard on "up"; raised says whether
\* the set operation raised
PressedAfter(pressed, type, tok) ==
    IF type = "down" THEN [set |-> pressed \cup {tok}, raised |-> FALSE]
    ELSE IF type = "up" THEN [set |-> pressed \ {tok}, raised |-> FALSE]
    ELSE [set |-> pressed, raised |-> FALSE]

\* the keyboard library calls the registered callback, one event at a time
HookEvent(type, name) ==
    /\ os_hooks > 0
    /\ cb.pc = "idle"
    /\ is_recording => Len(record_events) < MaxRec
    /\ cb' = IF name = NoName THEN cb
             ELSE [cb EXCEPT !.pc = "lock", !.type = type, !.name = name]
    /\ arrived' = IF is_recording /\ name # NoName
                  THEN Append(arrived, [type |-> type, name |-> name])
                  ELSE arrived
    /\ UNCHANGED << ctlVars, envVars, ui, worker, held, lockHeld, cbRaised, hist,
                    last_call >>
    /\ UNCHANGED window

\* with self.current_pressed_lock: update the set and build the display string
CbLock ==
    /\ cb.pc = "lock"
    /\ LET norm == NormalizeKey(cb.name)
           r == PressedAfter(current_pressed, cb.type, norm)
           h == IF cb.type = "down" THEN held \cup {norm} ELSE held \ {norm}
       IN  IF r.raised
           THEN /\ cb' = CbIdle
                /\ cbRaised' = TRUE
                /\ UNCHANGED << current_pressed, held, lockHeld >>
           ELSE /\ current_pressed' = r.set
                /\ cb' = [cb EXCEPT !.pc = "emit", !.display = Display(r.set)]
                /\ held' = h
                /\ lockHeld' = h
                /\ UNCHANGED cbRaised
    /\ UNCHANGED << hook, record_hook, is_recording, record_events, record_start_time,
                    is_playing, monitor_enabled, playback_stop, envVars, ui, worker, hist,
                    last_call, arrived >>
    /\ UNCHANGED window

\* self.bridge.keys_text_changed.emit(display)
CbEmit ==
    /\ cb.pc = "emit"
    /\ keys_text' = cb.display
    /\ cb' = [cb EXCEPT !.pc = "rec_check"]
    /\ UNCHANGED << ctlVars, os_hooks, clock, files, ui, worker, histVars >>
    /\ UNCHANGED window

\* if self._is_recording:
CbRecCheck ==
    /\ cb.pc = "rec_check"
    /\ cb' = IF is_recording THEN [cb EXCEPT !.pc = "rec_now"] ELSE CbIdle
    /\ UNCHANGED << ctlVars, envVars, ui, worker, histVars >>
    /\ UNCHANGED window

\* now = time.monotonic()
CbRecNow ==
    /\ cb.pc = "rec_now"
    /\ cb' = [cb EXCEPT !.pc = "rec_list", !.now = clock]
    /\ UNCHANGED << ctlVars, envVars, ui, worker, histVars >>
    /\ UNCHANGED window

\* self._record_events is evaluated: the callback now holds that list object
CbRecList ==
    /\ cb.pc = "rec_list"
    /\ cb' = [cb EXCEPT !.pc = "rec_append", !.stale = FALSE]
    /\ UNCHANGED << ctlVars, envVars, ui, worker, histVars >>
    /\ UNCHANGED window

\* the dict is built (now - self._record_start_time) and appended to the list
\* the callback holds; a list start_recording has replaced meanwhile is garbage
CbRecAppend ==
    /\ cb.pc = "rec_append"
    /\ record_events' =
         IF cb.stale THEN record_events
         ELSE Append(record_events,
                     [t |-> cb.now - record_start_time, type |-> cb.type, name |-> cb.name])
    /\ cb' = CbIdle
    /\ UNCHANGED << current_pressed, hook, record_hook, is_recording, record_start_time,
                    is_playing, monitor_enabled, playback_stop, envVars, ui, worker, histVars >>
    /\ UNCHANGED window

\* time passes
Tick ==
    /\ clock < MaxClock
    /\ clock' = clock + 1
    /\ UNCHANGED << ctlVars, os_hooks, files, keys_text, cb, ui, worker, histVars >>
    /\ UNCHANGED window

(***************************************************************************)
(* UI thread: the controller's methods, called one at a time.  A method   *)
(* that touches state shared with the hook thread or a worker thread is   *)
(* split where another thread may run in between.                         *)
(***************************************************************************)
\* set_monitor_enabled(enabled), lines 228-235: the flag, then the hook.
\* raises: keyboard.hook of line 231 raises (the library cannot listen, as on
\* Linux without root) after line 228 has set the flag; no handle is stored
MonitorSwitch(enabled, raises) ==
    /\ raises => (enabled /\ ~hook)
    /\ monitor_enabled' = enabled
    /\ IF enabled
       THEN IF ~hook
            THEN IF raises
                 THEN UNCHANGED << hook, os_hooks >>
                 ELSE hook' = TRUE /\ os_hooks' = os_hooks + 1
            ELSE UNCHANGED << hook, os_hooks >>
       ELSE IF hook
            THEN hook' = FALSE /\ os_hooks' = os_hooks - 1
            ELSE UNCHANGED << hook, os_hooks >>

\* set_monitor_enabled without the early return of lines 226-227
SetMonitorEnabledNoGuard(enabled) ==
    /\ ui.pc = "idle"
    /\ \E raises \in BOOLEAN :
          /\ MonitorSwitch(enabled, raises)
          /\ last_call' = Raising(Call("set_monitor_enabled", BoolStr(enabled),
                                       enabled = monitor_enabled), raises)
    /\ ui' = IF enabled THEN ui ELSE [ui EXCEPT !.pc = "mon_clear"]
    /\ UNCHANGED << current_pressed, record_hook, is_recording, record_events,
                    record_start_time, is_playing, playback_stop, clock, files,
                    keys_text, cb, worker, held, lockHeld, cbRaised, hist, arrived >>
    /\ UNCHANGED window

\* set_monitor_enabled(enabled), lines 225-235, as far as the controller goes;
\* the disabling call goes on with MonClear and MonEmit
SetMonitorEnabledCall(enabled) ==
    /\ ui.pc = "idle"
    /\ \E raises \in BOOLEAN :
          /\ IF enabled = monitor_enabled
             THEN ~raises /\ UNCHANGED << monitor_enabled, hook, os_hooks, ui >>
             ELSE /\ MonitorSwitch(enabled, raises)
                  /\ ui' = IF enabled THEN ui ELSE [ui EXCEPT !.pc = "mon_clear"]
          /\ last_call' = Raising(Call("set_monitor_enabled", BoolStr(enabled),
                                       enabled = monitor_enabled), raises)
    /\ UNCHANGED << current_pressed, record_hook, is_recording, record_events,
                    record_start_time, is_playing, playback_stop, clock, files,
                    keys_text, cb, worker, held, lockHeld, cbRaised, hist, arrived >>

\* set_monitor_enabled(enabled) called by anything but the monitor button
SetMonitorEnabled(enabled) ==
    /\ SetMonitorEnabledCall(enabled)
    /\ UNCHANGED window

\* _toggle_monitor, lines 808-813: the window flips its own flag and passes the
\* new value on.  Line 813 blanks the label of the overlay, which is not the
\* string keys_text_changed carried last.
ToggleMonitor ==
    \* the dialog of _toggle_record is modal
    /\ ~window.dialog
    /\ window' = [window EXCEPT !.monitoring = ~window.monitoring]
    /\ SetMonitorEnabledCall(~window.monitoring)

\* lines 236-237: with the lock held, self.current_pressed.clear()
MonClear ==
    /\ ui.pc = "mon_clear"
    /\ current_pressed' = {}
    /\ held' = {}
    /\ ui' = [ui EXCEPT !.pc = "mon_emit"]
    /\ UNCHANGED << hook, record_hook, is_recording, record_events, record_start_time,
                    is_playing, monitor_enabled, playback_stop, envVars, cb, worker,
                    lockHeld, cbRaised, hist, last_call, arrived >>
    /\ UNCHANGED window

\* line 238: keys_text_changed.emit("")
MonEmit ==
    /\ ui.pc = "mon_emit"
    /\ keys_text' = <<>>
    /\ ui' = UiIdle
    /\ last_call' = Emitting(last_call, "keys_text_changed", "")
    /\ UNCHANGED << ctlVars, os_hooks, clock, files, cb, worker, held, lockHeld,
                    cbRaised, hist, arrived >>
    /\ UNCHANGED window

\* start_recording without the early return of lines 242-243
StartRecordingNoGuard ==
    /\ ui.pc = "idle"
    /\ \E raises \in BOOLEAN :
          /\ IF monitor_enabled
             THEN ~raises /\ UNCHANGED << monitor_enabled, hook, os_hooks >>
             ELSE MonitorSwitch(TRUE, raises)
          /\ ui' = IF raises THEN ui ELSE [ui EXCEPT !.pc = "rec_events"]
          /\ last_call' = Raising(Call("start_recording", "", is_recording), raises)
    /\ UNCHANGED << current_pressed, record_hook, is_recording, record_events,
                    record_start_time, is_playing, playback_stop, clock, files,
                    keys_text, cb, worker, held, lockHeld, cbRaised, hist, arrived >>
    /\ UNCHANGED window

\* start_recording, lines 242-245: return if recording, else force monitoring
\* on; what set_monitor_enabled raises ends start_recording before line 246
StartRecording ==
    /\ ui.pc = "idle"
    /\ \E raises \in BOOLEAN :
          /\ IF is_recording
             THEN ~raises /\ UNCHANGED << monitor_enabled, hook, os_hooks, ui >>
             ELSE /\ IF monitor_enabled
                     THEN ~raises /\ UNCHANGED << monitor_enabled, hook, os_hooks >>
                     ELSE MonitorSwitch(TRUE, raises)
                  /\ ui' = IF raises THEN ui ELSE [ui EXCEPT !.pc = "rec_events"]
          /\ last_call' = Raising(Call("start_recording", "", is_recording), raises)
    /\ UNCHANGED << current_pressed, record_hook, is_recording, record_events,
                    record_start_time, is_playing, playback_stop, clock, files,
                    keys_text, cb, worker, held, lockHeld, cbRaised, hist, arrived >>
    /\ UNCHANGED window

\* line 246: self._record_events = []  (a new list object)
RecEvents ==
    /\ ui.pc = "rec_events"
    /\ record_events' = <<>>
    /\ cb' = IF cb.pc = "rec_append" THEN [cb EXCEPT !.stale = TRUE] ELSE cb
    /\ ui' = [ui EXCEPT !.pc = "rec_time"]
    /\ UNCHANGED << current_pressed, hook, record_hook, is_recording, record_start_time,
                    is_playing, monitor_enabled, playback_stop, envVars, worker, histVars >>
    /\ UNCHANGED window

\* line 247: self._record_start_time = time.monotonic()
RecTime ==
    /\ ui.pc = "rec_time"
    /\ record_start_time' = clock
    /\ ui' = [ui EXCEPT !.pc = "rec_flag"]
    /\ UNCHANGED << current_pressed, hook, record_hook, is_recording, record_events,
                    is_playing, monitor_enabled, playback_stop, envVars, cb, worker,
                    histVars >>
    /\ UNCHANGED window

\* lines 248-249: self._is_recording = True; recording_state_changed.emit(True)
RecFlag ==
    /\ ui.pc = "rec_flag"
    /\ is_recording' = TRUE
    /\ ui' = UiIdle
    /\ last_call' = Emitting(last_call, "recording_state_changed", "True")
    /\ arrived' = <<>>
    /\ UNCHANGED << current_pressed, hook, record_hook, record_events, record_start_time,
                    is_playing, monitor_enabled, playback_stop, envVars, cb, worker,
                    held, lockHeld, cbRaised, hist >>
    \* _on_record_state, lines 856-857, runs inside emit
    /\ window' = [window EXCEPT !.recording = TRUE]

\* stop_recording without the early return of lines 252-253
StopRecordingNoGuard(path) ==
    /\ ui.pc = "idle"
    /\ is_recording' = FALSE
    /\ last_call' = Emitting(Call("stop_recording", path, ~is_recording),
                             "recording_state_changed", "False")
    /\ ui' = [pc |-> "rec_write", path |-> path]
    /\ UNCHANGED << current_pressed, hook, record_hook, record_events, record_start_time,
                    is_playing, monitor_enabled, playback_stop, envVars, cb, worker,
                    held, lockHeld, cbRaised, hist, arrived >>
    /\ window' = [window EXCEPT !.recording = FALSE]

\* stop_recording(save_path), lines 252-255
StopRecordingCall(path) ==
    /\ ui.pc = "idle"
    /\ IF ~is_recording
       THEN /\ last_call' = Call("stop_recording", path, TRUE)
            /\ UNCHANGED << is_recording, ui >>
       ELSE /\ is_recording' = FALSE
            /\ last_call' = Emitting(Call("stop_recording", path, FALSE),
                                     "recording_state_changed", "False")
            /\ ui' = [pc |-> "rec_write", path |-> path]
    /\ UNCHANGED << current_pressed, hook, record_hook, record_events, record_start_time,
                    is_playing, monitor_enabled, playback_stop, envVars, cb, worker,
                    held, lockHeld, cbRaised, hist, arrived >>

\* stop_recording called by anything but the record button's dialog
StopRecording(path) ==
    /\ StopRecordingCall(path)
    \* _on_record_state, lines 856-857, runs inside emit
    /\ window' = IF is_recording THEN [window EXCEPT !.recording = FALSE] ELSE window

\* _toggle_record, lines 815-825 and 847-848: the window's own flag decides
\* between start_recording and the dialog that asks where to save.  exec() runs
\* an event loop, so the UI thread serves other events before the dialog is
\* closed.
ToggleRecord ==
    /\ ui.pc = "idle"
    /\ ~window.dialog
    /\ IF window.recording
       THEN /\ window' = [window EXCEPT !.dialog = TRUE]
            /\ UNCHANGED << ctlVars, envVars, cb, ui, worker, histVars >>
       ELSE StartRecording

\* _toggle_record, lines 827-846: whatever button closes the dialog,
\* stop_recording is called, with the path chosen or with the default one
RecordDialogClosed(path) ==
    /\ window.dialog
    /\ StopRecordingCall(path)
    /\ window' = [window EXCEPT !.dialog = FALSE,
                                !.recording = IF is_recording THEN FALSE ELSE @]

\* json.dumps of the recorded events: what a later json.loads gives back
ToJson(evs) == [i \in 1..Len(evs) |-> Ev("num", evs[i].t, evs[i].type, evs[i].name)]

\* lines 256-265: the event list as it is now is written to the target
RecWrite ==
    /\ ui.pc = "rec_write"
    /\ files' = [files EXCEPT ![ui.path] = JsonFile(ToJson(record_events))]
    /\ ui' = UiIdle
    /\ last_call' = [last_call EXCEPT !.ret = ui.path]
    /\ UNCHANGED << ctlVars, os_hooks, clock, keys_text, cb, worker, held, lockHeld,
                    cbRaised, hist, arrived >>
    /\ UNCHANGED window

\* a stop_recording that clears the flag only after a successful write: a
\* failed write leaves the recording on
RecWriteFailsStillRecording ==
    /\ ui.pc = "rec_write"
    /\ files' \in {files, [files EXCEPT ![ui.path] = Garbage]}
    /\ ui' = UiIdle
    /\ is_recording' = TRUE
    /\ last_call' = [last_call EXCEPT !.raised = TRUE]
    /\ UNCHANGED << current_pressed, hook, record_hook, record_events, record_start_time,
                    is_playing, monitor_enabled, playback_stop, os_hooks, clock,
                    keys_text, cb, worker, held, lockHeld, cbRaised, hist, arrived >>
    /\ UNCHANGED window

\* lines 262, 264: mkdir or write_text raises OSError; the call ends with it.
\* When mkdir or the open of write_text fails the target is as it was; when the
\* write fails after the open, which creates or truncates the target, an empty
\* file is left, which json.loads rejects.
RecWriteFails ==
    /\ ui.pc = "rec_write"
    /\ files' \in {files, [files EXCEPT ![ui.path] = Garbage]}
    /\ ui' = UiIdle
    /\ last_call' = [last_call EXCEPT !.raised = TRUE]
    /\ UNCHANGED << ctlVars, os_hooks, clock, keys_text, cb, worker, held, lockHeld,
                    cbRaised, hist, arrived >>
    /\ UNCHANGED window

\* shutdown without self._hook = None (line 192): the handle outlives the unhook
ShutdownKeepsHandle ==
    /\ ui.pc = "idle"
    /\ os_hooks' = os_hooks - (IF hook THEN 1 ELSE 0) - (IF record_hook THEN 1 ELSE 0)
    /\ hook' = hook
    /\ record_hook' = FALSE
    /\ monitor_enabled' = FALSE
    /\ last_call' = Call("shutdown", "", FALSE)
    /\ UNCHANGED << current_pressed, is_recording, record_events, record_start_time,
                    is_playing, playback_stop, clock, files, keys_text, cb, ui, worker,
                    held, lockHeld, cbRaised, hist, arrived >>
    /\ UNCHANGED window

\* shutdown, lines 190-196
Shutdown ==
    /\ ui.pc = "idle"
    /\ os_hooks' = os_hooks - (IF hook THEN 1 ELSE 0) - (IF record_hook THEN 1 ELSE 0)
    /\ hook' = FALSE
    /\ record_hook' = FALSE
    /\ monitor_enabled' = FALSE
    /\ last_call' = Call("shutdown", "", FALSE)
    /\ UNCHANGED << current_pressed, is_recording, record_events, record_start_time,
                    is_playing, playback_stop, clock, files, keys_text, cb, ui, worker,
                    held, lockHeld, cbRaised, hist, arrived >>
    /\ UNCHANGED window

(***************************************************************************)
(* Playback: play_file and stop_playback on the UI thread, _runner on a    *)
(* worker thread.                                                          *)
(***************************************************************************)
\* times argument: None or an int
Times(n) == [none |-> FALSE, n |-> n]
TimesNone == [none |-> TRUE, n |-> 0]
\* (times, loop) of the calls that do not loop: NTimes(n) as play_last_n passes
\* it, and None without loop, which makes one cycle as Once does
PlayModes == {<<Times(MaxTimes), FALSE>>, <<TimesNone, FALSE>>}

\* a thread is alive in slot w
Active(w) == worker[w].pc # "idle"
FreeWorkers == {w \in Workers : ~Active(w)}

\* lines 290-294: the distinct truthy names of the timeline
UniqueKeys(events) == {events[i].name : i \in 1..Len(events)} \ {NoName}

\* play_file(path, times, loop), lines 275-283 and 340.  path.exists() of line
\* 277 is in no try: what it raises goes to the caller.
PlayFile(path, times, loop) ==
    /\ ui.pc = "idle"
    /\ IF is_playing \/ files[path].kind # "json"
       THEN UNCHANGED << worker, hist >>
       ELSE /\ FreeWorkers # {}
            /\ LET w == CHOOSE x \in FreeWorkers : \A y \in FreeWorkers : x <= y
               IN  /\ worker' = [worker EXCEPT ![w] =
                          [WorkerIdle EXCEPT !.pc = "spawned",
                                             !.events = files[path].events,
                                             !.times_none = times.none,
                                             !.times = times.n,
                                             !.loop = loop]]
                   /\ hist' = [hist EXCEPT ![w] =
                          [HistIdle EXCEPT !.leftover = playback_stop]]
    /\ last_call' = Raising(Call("play_file", path,
                                  is_playing \/ files[path].kind \in {"absent", "garbage"}),
                             ~is_playing /\ files[path].kind = "denied")
    /\ UNCHANGED << ctlVars, envVars, cb, ui, held, lockHeld, cbRaised, arrived >>
    /\ UNCHANGED window

\* stop_playback, line 352: if self._is_playing
StopPlayback ==
    /\ ui.pc = "idle"
    /\ ui' = IF is_playing THEN [ui EXCEPT !.pc = "stop_set"] ELSE ui
    /\ hist' = [w \in Workers |->
                  IF Active(w) THEN [hist[w] EXCEPT !.stopCalled = TRUE] ELSE hist[w]]
    /\ last_call' = Call("stop_playback", "", ~is_playing)
    /\ UNCHANGED << ctlVars, envVars, cb, worker, held, lockHeld, cbRaised, arrived >>
    /\ UNCHANGED window

\* line 353: self._playback_stop.set()
StopSet ==
    /\ ui.pc = "stop_set"
    /\ playback_stop' = TRUE
    /\ ui' = UiIdle
    /\ hist' = [w \in Workers |->
                  IF Active(w) THEN [hist[w] EXCEPT !.stopped = TRUE] ELSE hist[w]]
    /\ UNCHANGED << current_pressed, hook, record_hook, is_recording, record_events,
                    record_start_time, is_playing, monitor_enabled, envVars, cb, worker,
                    held, lockHeld, cbRaised, last_call, arrived >>
    /\ UNCHANGED window

\* lines 286-287: self._is_playing = True; playback_state_changed.emit(True)
WStart(w) ==
    /\ worker[w].pc = "spawned"
    /\ is_playing' = TRUE
    /\ worker' = [worker EXCEPT ![w].pc = "clear"]
    /\ hist' = [hist EXCEPT ![w].signals = Append(@, "True")]
    /\ UNCHANGED << current_pressed, hook, record_hook, is_recording, record_events,
                    record_start_time, monitor_enabled, playback_stop, envVars, cb, ui,
                    held, lockHeld, cbRaised, last_call, arrived >>
    /\ UNCHANGED window

\* _runner without the clear() of line 297
WClearKeepsSignal(w) ==
    /\ worker[w].pc = "clear"
    /\ worker' = [worker EXCEPT ![w].pc = "while",
                                ![w].unique = UniqueKeys(worker[w].events),
                                ![w].cycle = 0]
    /\ UNCHANGED << ctlVars, envVars, cb, ui, histVars >>
    /\ UNCHANGED window

\* lines 290-297: unique_keys, cycle = 0, self._playback_stop.clear()
WClear(w) ==
    /\ worker[w].pc = "clear"
    /\ playback_stop' = FALSE
    /\ worker' = [worker EXCEPT ![w].pc = "while",
                                ![w].unique = UniqueKeys(worker[w].events),
                                ![w].cycle = 0]
    /\ UNCHANGED << current_pressed, hook, record_hook, is_recording, record_events,
                    record_start_time, is_playing, monitor_enabled, envVars, cb, ui,
                    histVars >>
    /\ UNCHANGED window

\* lines 298-300: while not stop.is_set(): cycle += 1; last_t = 0.0
WWhile(w) ==
    /\ worker[w].pc = "while"
    /\ IF playback_stop
       THEN /\ worker' = [worker EXCEPT ![w].pc = "release",
                                        ![w].todo = worker[w].unique]
            /\ UNCHANGED hist
       ELSE /\ worker' = [worker EXCEPT
                 ![w].pc = "for",
                 ![w].cycle = IF worker[w].cycle < CycleCap THEN worker[w].cycle + 1
                              ELSE worker[w].cycle,
                 ![w].last_t = 0,
                 ![w].idx = 1]
            /\ hist' = [hist EXCEPT ![w].cycleActs = <<>>, ![w].waited = 0]
    /\ UNCHANGED << ctlVars, envVars, cb, ui, held, lockHeld, cbRaised, last_call, arrived >>
    /\ UNCHANGED window

\* lines 324-329: after the for loop, leave the while loop or not
CycleLimitReached(times_none, times, cycle) == times_none \/ cycle >= Max(1, times)
LeavesAfterCycle(loop, times_none, times, cycle) ==
    ~loop /\ CycleLimitReached(times_none, times, cycle)

AfterCycle(w) ==
    IF LeavesAfterCycle(worker[w].loop, worker[w].times_none, worker[w].times,
                        worker[w].cycle)
    THEN [worker EXCEPT ![w].pc = "release", ![w].todo = worker[w].unique]
    ELSE [worker EXCEPT ![w].pc = "while"]

\* line 304: float(e.get("t", 0.0)); raises on a value that is no number
TimeOf(e) == IF e.tk = "missing" THEN 0 ELSE e.t
\* the delay taken from the start of the cycle, not from the previous event
DelaySinceCycleStart(t, last_t) == Max(0, t)

\* line 305
Delay(t, last_t) == Max(0, t - last_t)

\* lines 301-306: next event of the cycle, cancellation check, t and delay
WFor(w) ==
    /\ worker[w].pc = "for"
    /\ LET me == worker[w]
       IN  IF me.idx > Len(me.events) \/ playback_stop
           THEN worker' = AfterCycle(w) /\ UNCHANGED hist
           ELSE LET e == me.events[me.idx]
                IN  IF e.tk = "bad"
                    THEN /\ worker' = [worker EXCEPT ![w].pc = "finally"]
                         /\ hist' = [hist EXCEPT ![w].raised = TRUE]
                    ELSE /\ worker' = [worker EXCEPT
                              ![w].t = TimeOf(e),
                              ![w].rem = Delay(TimeOf(e), me.last_t),
                              ![w].pc = IF Delay(TimeOf(e), me.last_t) > 0
                                        THEN "sleep" ELSE "synth"]
                         /\ hist' = [hist EXCEPT ![w].slept = 0]
    /\ UNCHANGED << ctlVars, envVars, cb, ui, held, lockHeld, cbRaised, last_call, arrived >>
    /\ UNCHANGED window

\* a delay slept to its end whatever the signal is: the while of line 309
\* without its is_set() test
WSleepIgnoresSignal(w) ==
    /\ worker[w].pc = "sleep"
    /\ IF worker[w].rem > 0
       THEN \/ /\ worker' = [worker EXCEPT ![w].rem = worker[w].rem - 1]
               /\ hist' = [hist EXCEPT ![w].slept = hist[w].slept + 1,
                                       ![w].waited = hist[w].waited + 1]
            \/ /\ worker' = [worker EXCEPT ![w].pc = "finally"]
               /\ hist' = [hist EXCEPT ![w].raised = TRUE]
       ELSE /\ worker' = [worker EXCEPT ![w].pc = "slept"]
            /\ UNCHANGED hist
    /\ UNCHANGED << ctlVars, envVars, cb, ui, held, lockHeld, cbRaised, last_call, arrived >>
    /\ UNCHANGED window

\* lines 309-310: one sleep slice, unless cancelled or the delay is over.
\* The clock is read at line 309 and again at line 310: when the thread is held
\* up between the two reads until end_time has passed, the argument of
\* time.sleep is negative and time.sleep raises ValueError, which ends the run
\* through the finally block.
WSleep(w) ==
    /\ worker[w].pc = "sleep"
    /\ IF ~playback_stop /\ worker[w].rem > 0
       THEN \/ /\ worker' = [worker EXCEPT ![w].rem = worker[w].rem - 1]
               /\ hist' = [hist EXCEPT ![w].slept = hist[w].slept + 1,
                                       ![w].waited = hist[w].waited + 1]
            \/ /\ worker' = [worker EXCEPT ![w].pc = "finally"]
               /\ hist' = [hist EXCEPT ![w].raised = TRUE]
       ELSE /\ worker' = [worker EXCEPT ![w].pc = "slept"]
            /\ UNCHANGED hist
    /\ UNCHANGED << ctlVars, envVars, cb, ui, held, lockHeld, cbRaised, last_call, arrived >>
    /\ UNCHANGED window

\* lines 311-312: if self._playback_stop.is_set(): break
WSlept(w) ==
    /\ worker[w].pc = "slept"
    /\ worker' = IF playback_stop THEN AfterCycle(w)
                 ELSE [worker EXCEPT ![w].pc = "synth"]
    /\ UNCHANGED << ctlVars, envVars, cb, ui, histVars >>
    /\ UNCHANGED window

\* keyboard.press / keyboard.release raise on a name they cannot map to a key
Mapped(name) == name \notin {NoName, KeyUnmapped}

\* lines 313-321: the call made for the event, "none" when none is made or it raises
SynthOp(e) ==
    IF e.type = "down" /\ Mapped(e.name) THEN "press"
    ELSE IF e.type = "up" /\ Mapped(e.name) THEN "release"
    ELSE "none"

\* lines 313-322: synthesize the event, swallow a failure, last_t = t
WSynth(w) ==
    /\ worker[w].pc = "synth"
    /\ LET me == worker[w]
           e == me.events[me.idx]
           op == SynthOp(e)
       IN  /\ worker' = [worker EXCEPT ![w].pc = "for",
                                       ![w].last_t = me.t,
                                       ![w].idx = me.idx + 1]
           /\ hist' = IF op = "none" THEN hist
                      ELSE [hist EXCEPT
                              ![w].cycleActs = Append(hist[w].cycleActs,
                                                 [idx |-> me.idx, op |-> op, name |-> e.name]),
                              ![w].nacts = IF hist[w].nacts < ActCap
                                           THEN hist[w].nacts + 1 ELSE ActCap]
    /\ UNCHANGED << ctlVars, envVars, cb, ui, held, lockHeld, cbRaised, last_call, arrived >>
    /\ UNCHANGED window

\* lines 331-335: for k in unique_keys: keyboard.release(k), in the set's
\* iteration order; the first release that raises ends the loop
\* WRelease with the released key also taken out of the pressed-key set
WReleaseUpdatesPressed(w) ==
    /\ worker[w].pc = "release"
    /\ IF worker[w].todo = {}
       THEN worker' = [worker EXCEPT ![w].pc = "finally"]
            /\ UNCHANGED << hist, current_pressed >>
       ELSE \E k \in worker[w].todo :
              /\ hist' = [hist EXCEPT ![w].rel = hist[w].rel \cup {k}]
              /\ current_pressed' = current_pressed \ {NormalizeKey(k)}
              /\ worker' = IF Mapped(k)
                           THEN [worker EXCEPT ![w].todo = worker[w].todo \ {k}]
                           ELSE [worker EXCEPT ![w].pc = "finally"]
    /\ UNCHANGED << hook, record_hook, is_recording, record_events, record_start_time,
                    is_playing, monitor_enabled, playback_stop, envVars, cb, ui, held,
                    lockHeld, cbRaised, last_call, arrived >>
    /\ UNCHANGED window

WRelease(w) ==
    /\ worker[w].pc = "release"
    /\ IF worker[w].todo = {}
       THEN worker' = [worker EXCEPT ![w].pc = "finally"] /\ UNCHANGED hist
       ELSE \E k \in worker[w].todo :
              /\ hist' = [hist EXCEPT ![w].rel = hist[w].rel \cup {k}]
              /\ worker' = IF Mapped(k)
                           THEN [worker EXCEPT ![w].todo = worker[w].todo \ {k}]
                           ELSE [worker EXCEPT ![w].pc = "finally"]
    /\ UNCHANGED << ctlVars, envVars, cb, ui, held, lockHeld, cbRaised, last_call, arrived >>
    /\ UNCHANGED window

\* lines 337-338 after the loop and not in a finally block: skipped when an
\* exception ends the run
WFinallyUnlessRaised(w) ==
    /\ worker[w].pc = "finally"
    /\ is_playing' = IF hist[w].raised THEN is_playing ELSE FALSE
    /\ worker' = [worker EXCEPT ![w] = WorkerIdle]
    /\ hist' = [hist EXCEPT ![w] =
                  [HistIdle EXCEPT !.signals = IF hist[w].raised THEN hist[w].signals
                                               ELSE Append(hist[w].signals, "False")]]
    /\ UNCHANGED << current_pressed, hook, record_hook, is_recording, record_events,
                    record_start_time, monitor_enabled, playback_stop, envVars, cb, ui,
                    held, lockHeld, cbRaised, last_call, arrived >>
    /\ UNCHANGED window

\* lines 336-338: finally: self._is_playing = False; playback_state_changed.emit(False);
\* the thread ends
WFinally(w) ==
    /\ worker[w].pc = "finally"
    /\ is_playing' = FALSE
    /\ worker' = [worker EXCEPT ![w] = WorkerIdle]
    /\ hist' = [hist EXCEPT ![w] =
                  [HistIdle EXCEPT !.signals = Append(hist[w].signals, "False")]]
    /\ UNCHANGED << current_pressed, hook, record_hook, is_recording, record_events,
                    record_start_time, monitor_enabled, playback_stop, envVars, cb, ui,
                    held, lockHeld, cbRaised, last_call, arrived >>
    /\ UNCHANGED window

WorkerStep(w) ==
    \/ WStart(w) \/ WClear(w) \/ WWhile(w) \/ WFor(w) \/ WSleep(w) \/ WSlept(w)
    \/ WSynth(w) \/ WRelease(w) \/ WFinally(w)

(***************************************************************************)
(* Specifications.  The hook callback and the recorder share no variable   *)
(* with the playback worker except the files, so each side is also checked *)
(* on its own, the other side staying in its initial state.                *)
(***************************************************************************)
\* every file play_file may find at the default path
AnyFile == {Absent, Garbage, Denied} \cup {JsonFile(evs) : evs \in Timelines}

\* the names of the keys pressed while a recording is made
RecNames == {NoName, KeyA}

NextKeys ==
    \/ \E ty \in HookTypes, n \in HookNames : HookEvent(ty, n)
    \/ CbLock
    \/ CbEmit
    \/ CbRecCheck
    \/ \E e \in BOOLEAN : SetMonitorEnabled(e)
    \/ MonClear
    \/ MonEmit
    \/ Shutdown

NextRec ==
    \/ \E ty \in HookTypes, n \in RecNames : HookEvent(ty, n)
    \/ CbLock
    \/ CbEmit
    \/ CbRecCheck
    \/ CbRecNow
    \/ CbRecList
    \/ CbRecAppend
    \/ Tick
    \/ \E e \in BOOLEAN : SetMonitorEnabled(e)
    \/ MonClear
    \/ MonEmit
    \/ StartRecording
    \/ RecEvents
    \/ RecTime
    \/ RecFlag
    \/ StopRecording("default")
    \/ RecWrite
    \/ RecWriteFails
    \/ Shutdown

\* key names for the check of _normalize_key: names of one character, names
\* with " space" in them and names with single, doubled and trailing spaces
NormNames ==
    { <<"a">>, <<"Z">>, <<" ">>, <<"_">>,
      KeyLeftShift,
      <<"s","p","a","c","e">>,
      <<"a"," ","s","p","a","c","e">>,
      <<" "," ","s","p","a","c","e">>,
      <<" ","s","p","a","c","e"," ","s","p","a","c","e">>,
      <<"p","a","g","e"," "," ","u","p"," ">> }

NextNorm ==
    \/ \E ty \in HookTypes, n \in NormNames : HookEvent(ty, n)
    \/ CbLock
    \/ CbEmit
    \/ CbRecCheck
    \/ \E e \in BOOLEAN : SetMonitorEnabled(e)
    \/ MonClear
    \/ MonEmit

\* playback without a loop, play_file called at any time
NextPlay ==
    \/ \E m \in PlayModes : PlayFile("default", m[1], m[2])
    \/ StopPlayback
    \/ StopSet
    \/ \E w \in Workers : WorkerStep(w)

\* the monitor button and the record button of the control window, with key
\* events arriving
NextWindow ==
    \/ \E ty \in HookTypes, n \in RecNames : HookEvent(ty, n)
    \/ CbLock
    \/ CbEmit
    \/ CbRecCheck
    \/ CbRecNow
    \/ CbRecList
    \/ CbRecAppend
    \/ Tick
    \/ ToggleMonitor
    \/ MonClear
    \/ MonEmit
    \/ ToggleRecord
    \/ RecordDialogClosed("default")
    \/ RecEvents
    \/ RecTime
    \/ RecFlag
    \/ RecWrite
    \/ RecWriteFails

\* the key pressed while a file is played
MixNames == {KeyA}

\* playbacks of the one-event file while a key is pressed and monitoring is
\* switched on
NextMix ==
    \/ \E ty \in HookTypes, n \in MixNames : HookEvent(ty, n)
    \/ CbLock
    \/ CbEmit
    \/ CbRecCheck
    \/ SetMonitorEnabled(TRUE)
    \/ PlayFile("default", Times(1), FALSE)
    \/ StopPlayback
    \/ StopSet
    \/ \E w \in Workers : WorkerStep(w)

\* Once and Loop, as play_last and loop_last pass them
RaceModes == {<<Times(1), FALSE>>, <<TimesNone, TRUE>>}

NextRace ==
    \/ \E m \in RaceModes : PlayFile("default", m[1], m[2])
    \/ StopPlayback
    \/ StopSet
    \/ \E w \in Workers : WorkerStep(w)

Next == NextKeys \/ NextRec \/ NextPlay \/ NextRace \/ NextWindow

Init == InitWith(AnyFile)

\* a timeline of one event that is waited for
WaitFile == JsonFile(<< Ev("num", 1, "down", KeyA) >>)
\* a timeline with a t that float() rejects
BadTFile == JsonFile(<< Ev("bad", 0, "down", KeyA) >>)
\* a timeline with a key name the keyboard library rejects, and no t
UnmappedFile == JsonFile(<< Ev("missing", 0, "up", KeyUnmapped), Ev("num", 1, "down", KeyB) >>)
\* a well-formed timeline of two events, the second with the smaller t
TwoKeyFile == JsonFile(<< Ev("num", 2, "up", KeyA), Ev("num", 1, "down", KeyB) >>)

\* the files of the runs that may loop
RaceFiles == {WaitFile, BadTFile}
\* the files of the runs that do not loop: none, one that is no JSON, and the
\* timelines
PlayFiles == {Absent, Garbage, Denied, BadTFile, UnmappedFile, TwoKeyFile}

\* the whole program
Spec == Init /\ [][Next]_vars
\* the hook callback and monitoring, no recording
SpecKeys == InitWith({Absent}) /\ [][NextKeys]_vars
\* the hook callback over many key names, one key held at a time
SpecNorm == InitWith({Absent}) /\ [][NextNorm]_vars
\* monitoring and recording
SpecRec == InitWith({Absent}) /\ [][NextRec]_vars
\* the control window driving monitoring and recording
SpecWindow == InitWith({Absent}) /\ [][NextWindow]_vars
\* playback without a loop
SpecPlay == InitWith(PlayFiles) /\ [][NextPlay]_vars
\* the hook callback and monitoring together with playback
SpecMix == InitWith({WaitFile}) /\ [][NextMix]_vars
\* playback, once or in a loop
SpecRace == InitWith(RaceFiles) /\ [][NextRace]_vars
\* playback with the scheduling the threads get: a started worker thread keeps
\* running, and a stop_playback call that has begun completes
FairSpecRace ==
    /\ SpecRace
    /\ \A w \in Workers : WF_vars(WorkerStep(w))
    /\ WF_vars(StopSet)

(***************************************************************************)
(* Claims.                                                                 *)
(***************************************************************************)
\* C1: at most one playback worker thread is alive at any time, whatever the
\* interleaving of play_file calls and worker steps.
AtMostOneWorker == Cardinality({w \in Workers : Active(w)}) <= 1

\* C2: a stop_playback call made while a worker started by play_file has not
\* finished leads to that worker's exit with the playing flag false, in every
\* repeat mode.
StopLeadsToExit ==
    \A w \in Workers : hist[w].stopCalled ~> (~Active(w) /\ ~is_playing)

\* C3: when a run reaches its finally block (completion, cancellation or an
\* error), a release has been issued for every distinct non-empty key name of
\* the timeline.
AllKeysReleasedAtExit ==
    \A w \in Workers :
        worker[w].pc = "finally" => UniqueKeys(worker[w].events) \subseteq hist[w].rel

\* C4: recording implies monitoring, in every reachable state.
RecordingImpliesMonitoring == is_recording => (monitor_enabled /\ hook)

\* pcs of a worker inside the while loop of _runner
InLoop == {"while", "for", "sleep", "slept", "synth"}

\* a timeline whose events all have a numeric t, a type and a key name the
\* keyboard library knows
WellFormed(evs) ==
    \A i \in 1..Len(evs) :
        evs[i].tk = "num" /\ evs[i].type \in {"down", "up"} /\ Mapped(evs[i].name)

\* the actions one cycle over evs has to synthesize, in order
ExpectedCycle(evs) ==
    [i \in 1..Len(evs) |->
        [idx |-> i, op |-> IF evs[i].type = "down" THEN "press" ELSE "release",
         name |-> evs[i].name]]

\* C5: with no cancellation, a well-formed timeline of k events and loop = false,
\* the run makes exactly n cycles (one when times is None) of exactly the k
\* timeline actions in timeline order, n*k in all, and then leaves the loop.
RunsExactlyNCycles ==
    \A w \in Workers :
        LET me == worker[w]
            h == hist[w]
            k == Len(me.events)
            n == IF me.times_none THEN 1 ELSE me.times
        IN  (Active(w) /\ ~me.loop /\ ~h.stopped /\ WellFormed(me.events)) =>
              /\ me.cycle <= n
              /\ IsPrefix(h.cycleActs, ExpectedCycle(me.events))
              /\ me.cycle >= 1 => h.nacts = (me.cycle - 1) * k + Len(h.cycleActs)
              /\ me.pc = "while" /\ me.cycle >= 1 => me.cycle < n /\ Len(h.cycleActs) = k
              /\ me.pc \in {"release", "finally"} => me.cycle = n /\ h.nacts = n * k

\* C6: a Loop worker leaves the while loop only when the cancellation signal
\* is set.
LoopLeavesOnlyOnStop ==
    [][\A w \in Workers :
          (worker[w].loop /\ worker[w].pc \in InLoop /\ worker'[w].pc \notin InLoop)
              => playback_stop]_vars

\* C7: the signal a cancelled run left set does not reach the next run: inside
\* the while loop the signal is unset unless stop_playback set it since this
\* run's play_file; and no stop_playback issued while no worker is alive sets it.
SignalResetBeforeRun ==
    /\ [](\A w \in Workers :
            (worker[w].pc \in InLoop /\ ~hist[w].stopped) => ~playback_stop)
    /\ [][(ui.pc = "idle" /\ \A w \in Workers : ~Active(w))
             => (ui'.pc # "stop_set" /\ playback_stop' = playback_stop)]_vars

\* C7 witness: a run started with the signal still set has synthesized an event
WitnessSignalResetBeforeRun ==
    \E w \in Workers :
        hist[w].leftover /\ ~hist[w].stopped /\ Len(hist[w].cycleActs) > 0

\* t of the event processed before event i of the cycle, 0 for the first
PrevT(evs, i) == IF i = 1 THEN 0 ELSE TimeOf(evs[i - 1])
\* the first n events are in non-decreasing order of t
SortedByT(evs, n) ==
    \A i, j \in 1..n : i <= j => TimeOf(evs[i]) <= TimeOf(evs[j])

\* C8: in a cycle that is not cancelled the worker has slept max(0, t_i - last_t)
\* ticks before it synthesizes event i, last_t being 0 for the first event of a
\* cycle and the previous event's t afterwards; for a timeline sorted by t it
\* has slept t_i ticks since the cycle began.
DelaysFollowTimeline ==
    \A w \in Workers :
        LET me == worker[w]
            e == me.events[me.idx]
        IN  (me.pc = "synth" /\ ~hist[w].stopped) =>
              /\ hist[w].slept = Max(0, TimeOf(e) - PrevT(me.events, me.idx))
              /\ SortedByT(me.events, me.idx) => hist[w].waited = TimeOf(e)

\* C8 witness: the second event of the second cycle of a timeline whose second
\* t is the smaller one, after two ticks of sleep in that cycle, none of them
\* before this event
WitnessDelaysFollowTimeline ==
    \E w \in Workers :
        /\ worker[w].pc = "synth" /\ ~hist[w].stopped
        /\ worker[w].idx = 2 /\ worker[w].cycle = 2
        /\ SortedByT(worker[w].events, 1) /\ ~SortedByT(worker[w].events, 2)
        /\ hist[w].waited = 2 /\ hist[w].slept = 0

\* the sequences that list every element of S once
Listings(S) ==
    {l \in [1..Cardinality(S) -> S] : \A i, j \in 1..Cardinality(S) : l[i] = l[j] => i = j}
\* d is the tokens of S joined by "+", each once, in ascending order
IsDisplayOf(d, S) ==
    \E l \in Listings(S) :
        /\ \A i \in 1..(Len(l) - 1) : StrLess(l[i], l[i + 1])
        /\ d = Join(<<"+">>, l)

\* C9: the pressed-key set is exactly the tokens whose most recent transition
\* (since the set was last cleared) was Down, and the display string about to be
\* published is those tokens joined by "+" in ascending order, each once.
PressedSetMatchesHistory ==
    /\ current_pressed = held
    /\ cb.pc = "emit" => IsDisplayOf(cb.display, lockHeld)

\* C9 witness: both A and LEFT_SHIFT are held and their string is being published
WitnessPressedSetMatchesHistory ==
    /\ cb.pc = "emit"
    /\ current_pressed = {<<"A">>, <<"L","E","F","T","_","S","H","I","F","T">>}
    /\ cb.display = <<"A","+","L","E","F","T","_","S","H","I","F","T">>

\* C10: the callback's Up of a token that is not in the pressed-key set raises
\* nothing and leaves the set as it was.
UpOfAbsentIsNoOp ==
    [][(cb.pc = "lock" /\ cb' # cb /\ cb.type = "up"
          /\ NormalizeKey(cb.name) \notin current_pressed)
         => (current_pressed' = current_pressed /\ ~cbRaised' /\ cb'.pc = "emit")]_vars

\* C10 witness: an Up was processed and the string built is the one last
\* published, with a key held: the Up was of a token not in the set
WitnessUpOfAbsentIsNoOp ==
    /\ cb.pc = "emit" /\ cb.type = "up"
    /\ current_pressed # {}
    /\ cb.display = keys_text
    /\ ~cbRaised

\* the last call was set_monitor_enabled(False), it turned monitoring off and it
\* has returned
DisableCompleted ==
    /\ last_call.op = "set_monitor_enabled" /\ last_call.arg = "False"
    /\ ~last_call.early
    /\ ui.pc = "idle"

\* C11: after set_monitor_enabled(False) has completed, and while monitoring
\* stays disabled, the pressed-key set is empty, whatever a hook callback that
\* was in flight when the hook was detached does.
EmptyWhileDisabled ==
    (DisableCompleted /\ ~monitor_enabled) => current_pressed = {}

\* C12: set_monitor_enabled(x) called when monitoring already equals x hooks and
\* unhooks nothing, leaves the hook handle and the pressed-key set as they were,
\* returns at once and publishes no display string.
NoOpWhenAlreadySet ==
    /\ [][\A e \in BOOLEAN :
            (e = monitor_enabled /\ SetMonitorEnabled(e))
                => UNCHANGED << os_hooks, hook, monitor_enabled, current_pressed,
                                keys_text >>]_vars
    /\ []((last_call.op = "set_monitor_enabled" /\ last_call.early)
            => (ui.pc = "idle" /\ last_call.emits = <<>>))

\* C12 witness: set_monitor_enabled(True) was called with monitoring on, a key
\* held and its string published; all is as it was
WitnessNoOpWhenAlreadySet ==
    /\ last_call.op = "set_monitor_enabled" /\ last_call.arg = "True" /\ last_call.early
    /\ monitor_enabled /\ hook /\ os_hooks = 1
    /\ current_pressed = {<<"A">>} /\ keys_text = <<"A">>

StopWhileIdleIsNoOp ==
    /\ [][\A p \in Paths :
            (~is_recording /\ StopRecording(p))
                => UNCHANGED << ctlVars, envVars, cb, ui, worker >>]_vars
    /\ []((last_call.op = "stop_recording" /\ last_call.early)
            => /\ ui.pc = "idle"
               /\ last_call.ret = "None" /\ ~last_call.raised
               /\ last_call.emits = <<>>)

\* C14 witness: stop_recording was called while not recording, with the log of
\* an earlier recording still in memory and no file at the default path
WitnessStopWhileIdleIsNoOp ==
    /\ last_call.op = "stop_recording" /\ last_call.early
    /\ ~is_recording /\ Len(record_events) = 2
    /\ files["default"] = Absent

\* transition type and raw key name of the events of a timeline, in order
TypesAndNames(evs) ==
    [i \in 1..Len(evs) |-> [type |-> evs[i].type, name |-> evs[i].name]]

\* C15: the timeline stop_recording has written holds one event per callback
\* invocation with a non-empty key name that arrived while the recording was
\* on (from the return of the matching start_recording to the call of this
\* stop_recording), in arrival order, with its transition type and raw name,
\* and nothing else.
TimelineMatchesArrivals ==
    (last_call.op = "stop_recording" /\ ~last_call.early /\ last_call.ret # "None")
        => TypesAndNames(files[last_call.ret].events) = arrived

\* C16: in every reachable state the elapsed times of the recorder's event log
\* are >= 0 and non-decreasing in log order.
ElapsedTimesOrdered ==
    /\ \A i \in 1..Len(record_events) : record_events[i].t >= 0
    /\ \A i, j \in 1..Len(record_events) :
          i <= j => record_events[i].t <= record_events[j].t

\* C17: play_file on a path that does not exist, or whose contents cannot be
\* read or parsed, starts no worker, leaves the playing flag and every other
\* field as they were, synthesizes no key, emits nothing and raises nothing.
\* (The step of a call is the step that changes last_call.)
PlayFileOnBadPathIsNoOp ==
    /\ [][(last_call' # last_call /\ last_call'.op = "play_file"
              /\ files[last_call'.arg].kind # "json")
            => UNCHANGED << ctlVars, envVars, cb, ui, worker, hist >>]_vars
    /\ []((last_call.op = "play_file" /\ files[last_call.arg].kind # "json")
            => /\ last_call.early /\ ~last_call.raised
               /\ last_call.emits = <<>>)

\* C18: a malformed event of a parsed timeline never aborts the run: no
\* exception ends a worker, whatever the events of the file are.
MalformedEventsNeverAbort ==
    \A w \in Workers : ~hist[w].raised

\* every t of the timeline is a number or missing
NumericT(evs) == \A i \in 1..Len(evs) : evs[i].tk # "bad"
\* the presses and releases that succeed among the first k events, in order
ActsOf(evs, k) ==
    SelectSeq([i \in 1..k |-> [idx |-> i, op |-> SynthOp(evs[i]), name |-> evs[i].name]],
              LAMBDA a : a.op # "none")

\* C19: a press or release that fails is swallowed for its event only.  The
\* step that handles such an event raises nothing, sets last_t to the event's t
\* and goes on to the next event of the same cycle; and in a run that is not
\* cancelled (and whose timeline has no t that float() rejects) every event
\* before the current one that can be synthesized has been, with last_t the t
\* of the event just handled, and the run still makes all its cycles.
SynthFailureIsSwallowed ==
    /\ [][\A w \in Workers :
            LET me == worker[w]
            IN  (me.pc = "synth" /\ worker'[w] # me
                    /\ SynthOp(me.events[me.idx]) = "none")
                  => /\ worker'[w] = [me EXCEPT !.pc = "for", !.idx = me.idx + 1,
                                                !.last_t = TimeOf(me.events[me.idx])]
                     /\ hist'[w] = hist[w]]_vars
    /\ [](\A w \in Workers :
            LET me == worker[w]
                h == hist[w]
                n == IF me.times_none THEN 1 ELSE me.times
            IN  (Active(w) /\ NumericT(me.events)) =>
                  /\ ~h.raised
                  /\ (~h.stopped /\ me.pc \in {"for", "sleep", "slept", "synth"}) =>
                        /\ h.cycleActs = ActsOf(me.events, me.idx - 1)
                        /\ me.idx > 1 => me.last_t = TimeOf(me.events[me.idx - 1])
                  /\ (~h.stopped /\ ~me.loop /\ me.pc \in {"release", "finally"}) =>
                        /\ me.cycle = n
                        /\ h.cycleActs = ActsOf(me.events, Len(me.events)))

\* C20: shutdown leaves no hook handle, no handler registered with the keyboard
\* library and monitoring false, from any state it is called in; it raises and
\* emits nothing; and a shutdown called right after a shutdown unhooks nothing
\* and changes no state.
ShutdownIsIdempotent ==
    /\ [][Shutdown => (~hook' /\ ~record_hook' /\ ~monitor_enabled' /\ os_hooks' = 0)]_vars
    /\ [][(last_call.op = "shutdown" /\ Shutdown) => UNCHANGED vars]_vars
    /\ [](last_call.op = "shutdown" => (~last_call.raised /\ last_call.emits = <<>>))

\* C20 witness: shutdown was called during a recording, with "A" held; the hook
\* is detached and monitoring is off
WitnessShutdownIsIdempotent ==
    /\ last_call.op = "shutdown"
    /\ ~hook /\ os_hooks = 0 /\ ~monitor_enabled
    /\ is_recording /\ current_pressed = {<<"A">>}

RefUpperChar(c) ==
    IF CodePoint(c) >= 97 /\ CodePoint(c) <= 122 THEN UpperCase[CodePoint(c) - 96] ELSE c
FollowedBySpace(s, i) ==
    /\ i + 5 <= Len(s)
    /\ SubSeq(s, i + 1, i + 5) = <<"s","p","a","c","e">>
RECURSIVE RefFrom(_, _)
RefFrom(s, i) ==
    IF i > Len(s) THEN <<>>
    ELSE (IF s[i] = " "
          THEN (IF FollowedBySpace(s, i) THEN <<>> ELSE <<"_">>)
          ELSE <<RefUpperChar(s[i])>>) \o RefFrom(s, i + 1)
RefNormalize(s) == IF Len(s) = 1 THEN <<RefUpperChar(s[1])>> ELSE RefFrom(s, 1)

\* C22: the token the callback computes for the key name it is about to enter
\* is the reference normalisation of that name, whatever else is held: once a
\* Down has passed the lock the reference token is among the held keys, and
\* when it is the only one the display string is that token; for the names "a",
\* "left shift" and "space" the token is "A", "LEFT_SHIFT" and "SPACE".
NormalizeMatchesReference ==
    /\ cb.pc = "lock" => NormalizeKey(cb.name) = RefNormalize(cb.name)
    /\ (cb.pc = "emit" /\ cb.type = "down") =>
           /\ RefNormalize(cb.name) \in lockHeld
           /\ lockHeld = {RefNormalize(cb.name)} => cb.display = RefNormalize(cb.name)
    /\ (cb.pc = "lock" /\ cb.name = KeyA) => NormalizeKey(cb.name) = <<"A">>
    /\ (cb.pc = "lock" /\ cb.name = KeyLeftShift) =>
           NormalizeKey(cb.name) = <<"L","E","F","T","_","S","H","I","F","T">>
    /\ (cb.pc = "lock" /\ cb.name = <<"s","p","a","c","e">>) =>
           NormalizeKey(cb.name) = <<"S","P","A","C","E">>

\* C22 witness: the Down of "a space" is being published as "ASPACE"
WitnessNormalizeMatchesReference ==
    /\ cb.pc = "emit" /\ cb.type = "down"
    /\ cb.name = <<"a"," ","s","p","a","c","e">>
    /\ cb.display = <<"A","S","P","A","C","E">>
    /\ current_pressed = {cb.display}

\* C23: while the cancellation signal is set, a worker inside the while loop
\* starts no new cycle and begins no further sleep slice; the only event it
\* still synthesizes is one whose cancellation check had passed (it is at the
\* synthesis already), after which it goes back to the check; from the delay
\* it goes to the check of line 311 and from there out of the cycle, and the
\* pending event is not synthesized.
CancelledWorkerStops ==
    [][\A w \in Workers :
          LET me == worker[w]
              to == worker'[w]
          IN  (playback_stop /\ playback_stop' /\ me.pc \in InLoop /\ to # me) =>
                /\ to.cycle = me.cycle
                /\ hist'[w].slept = hist[w].slept
                /\ me.pc = "synth" => to.pc = "for"
                /\ me.pc = "sleep" => (to.pc = "slept" /\ to.rem = me.rem)
                /\ me.pc = "while" => to.pc = "release"
                /\ me.pc \in {"for", "slept"} => to.pc \in {"while", "release"}
                /\ me.pc # "synth" => (to.idx = me.idx /\ hist'[w] = hist[w])]_vars

\* C23 witness: stop_playback set the signal during a delay of two ticks after
\* one slice; the worker has left the delay with one tick remaining
WitnessCancelledWorkerStops ==
    \E w \in Workers :
        /\ playback_stop /\ hist[w].stopped
        /\ worker[w].pc = "slept" /\ worker[w].rem = 1 /\ hist[w].slept = 1

\* C24: whenever no hook callback and no controller call is in progress, the
\* display string published last is the display string of the pressed-key set.
PublishedMatchesPressed ==
    (cb.pc = "idle" /\ ui.pc = "idle") => keys_text = Display(current_pressed)

\* C25: in every reachable state at most one callback is registered with the
\* keyboard library, it is registered exactly when a hook handle is held, and
\* the monitoring flag is true exactly when a handle is held; a step registers
\* a callback only when no handle is held and removes one, and only one, only
\* when a handle is held.
OneHookIffMonitoring ==
    /\ [](/\ os_hooks = (IF hook THEN 1 ELSE 0)
          /\ monitor_enabled <=> hook
          /\ ~record_hook)
    /\ [][/\ os_hooks' > os_hooks => (~hook /\ hook' /\ os_hooks' = os_hooks + 1)
          /\ os_hooks' < os_hooks => (hook /\ ~hook' /\ os_hooks' = os_hooks - 1)]_vars

\* C26: a worker thread emits playback_state_changed(True) once, as its first
\* step and before any press or release, and playback_state_changed(False) once,
\* as its last step, whether it ends by completion, cancellation or an
\* exception; that last step leaves the playing flag false.
PlaybackSignalsOncePerRun ==
    /\ [](\A w \in Workers :
            /\ worker[w].pc = "spawned" =>
                  (hist[w].signals = <<>> /\ hist[w].nacts = 0 /\ hist[w].rel = {})
            /\ (Active(w) /\ worker[w].pc # "spawned") => hist[w].signals = <<"True">>
            /\ ~Active(w) => hist[w].signals \in {<<>>, <<"True", "False">>})
    /\ [][\A w \in Workers :
            (Active(w) /\ worker'[w].pc = "idle")
                => /\ worker[w].pc = "finally"
                   /\ hist'[w].signals = <<"True", "False">>
                   /\ ~is_playing']_vars

\* C26 witness: a run of a timeline whose only event has a t that float()
\* rejects has ended: True and False were emitted and the flag is false
WitnessPlaybackSignalsOncePerRun ==
    /\ files["default"] = JsonFile(<< Ev("bad", 0, "down", KeyA) >>)
    /\ ~Active(1) /\ hist[1].signals = <<"True", "False">>
    /\ ~is_playing

(***************************************************************************)
(* C27.  A playback run mutates neither the timeline it replays nor the    *)
(* recorder's or the monitor's state: every step of a running worker       *)
(* leaves the event sequence it loaded, the recorder's event log, the      *)
(* recording flag, the start time, the monitoring flag, both hook handles  *)
(* and the pressed-key set unchanged, and the file it was loaded from as   *)
(* well.  Of the controller's fields a worker step changes only            *)
(* _is_playing and _playback_stop.                                         *)
(***************************************************************************)
PlaybackLeavesRecorderAndMonitor ==
    [][\A w \in Workers :
         (Active(w) /\ worker'[w] # worker[w])
            => /\ UNCHANGED << current_pressed, hook, record_hook, is_recording,
                               record_events, record_start_time, monitor_enabled >>
               /\ files' = files
               /\ Active(w)' => worker'[w].events = worker[w].events]_vars

\* a worker that has pressed a key and released it at the end of its run
\* while monitoring is on and a key is in the pressed-key set
WitnessPlaybackLeavesRecorderAndMonitor ==
    \E w \in Workers :
        /\ worker[w].pc = "finally"
        /\ hist[w].nacts > 0
        /\ hist[w].rel # {}
        /\ monitor_enabled
        /\ hook
        /\ current_pressed # {}

(***************************************************************************)
(* C28.  The end-of-run release treats keys independently: once the        *)
(* release loop of lines 331-335 has attempted one key, a release has been *)
(* attempted for every distinct key name of the timeline by the time the   *)
(* run reaches its finally block, whether or not a release failed.         *)
(***************************************************************************)
EveryKeyGetsAReleaseAttempt ==
    \A w \in Workers :
        (worker[w].pc = "finally" /\ hist[w].rel # {})
            => UniqueKeys(worker[w].events) \subseteq hist[w].rel

(***************************************************************************)
(* C29.  The control window's own _monitoring flag equals the controller's *)
(* monitoring flag whenever no handler is running on the UI thread, after  *)
(* every sequence of clicks on the monitor button and on the record        *)
(* button.                                                                 *)
(***************************************************************************)
WindowFlagMatchesController ==
    ui.pc = "idle" => window.monitoring = monitor_enabled

====
